---- MODULE Spec2Model ----
(***************************************************************************)
(* Model of src/main.rs: the command line tool that answers `.dbinfo` and  *)
(* `.tables` over the first page of a database file.                       *)
(*                                                                         *)
(* A run of main is a walk of pc through                                   *)
(*   start -> open -> header -> dbinfo -> done                             *)
(*   start -> open -> header -> cell_pointers -> loop_bound ->             *)
(*            (loop -> decode)* -> done                                    *)
(* and ends in "error" when main returns Err and in "panic" when it        *)
(* panics.  Inputs (the argument vector, the file, the build profile) are  *)
(* drawn in Init.  SpecVarint runs the three varint loops of main on their *)
(* own, on encoded u64 values (pc = "varint").                             *)
(***************************************************************************)
EXTENDS Integers, Sequences, FiniteSets, TLC

VARIABLES
    args,               \* std::env::args(): <<program, path, command, ...>>
    file,               \* the file at args[1]: [exists, len, at]
    cells,              \* the catalogue entries `file` was written from
    build,              \* "debug" (overflow checks on) or "release" (wrapping)
    pc,                 \* position of main
    pos,                \* the file cursor
    io,                 \* file operations performed so far, in order
    stdout,             \* lines printed by println!
    err,                \* how main ended abnormally: [kind, at, why]
    header,             \* let mut header = [0; 108]
    table_count,        \* u16 at header[103..104]
    cell_pointer_array, \* Vec<u8> of table_count * 2 bytes
    bound,              \* end of the range 0..table_count * 2 (u16)
    i,                  \* loop variable of the cell loop (u16, step 2)
    visited,            \* the cell_pointer values the loop has sought to
    payload,            \* Vec<u8> of the current cell
    row,                \* what the record decoding of the last cell did
    vin,                \* varint round trip: the value and its encoding
    vout                \* varint round trip: what each loop returned

vars == <<args, file, cells, build, pc, pos, io, stdout, err, header,
          table_count, cell_pointer_array, bound, i, visited, payload, row,
          vin, vout>>

-----------------------------------------------------------------------------
(* Bounds of the input space *)

\* most cells in a generated file
MaxCells == 2
\* bytes reserved for each cell in a generated file
SlotSize == 32
\* file offset of the first cell slot in a generated file
CellBase == 128

(* Program constants *)

\* let mut header = [0; 108]
HeaderLen == 108
\* for _ in 0..5
SchemaColumns == 5
\* width of u64
U64Bits == 64
\* if bytes_read == 8
VarintShortBytes == 8

(* A usize at or above 2^30 is kept as Huge.  Every usize of the program  *)
(* is compared with, or added to, buffer lengths below 2^17 only, so each  *)
(* such comparison comes out as in the code.                               *)
Huge == 2^30

U16Mod == 2^16

-----------------------------------------------------------------------------
(* Byte buffers: a length and the bytes that are not zero-filled.          *)
(* Offsets are zero-based as in the code.                                  *)

ByteAt(b, k) == IF k \in DOMAIN b.at THEN b.at[k] ELSE 0

\* read_exact into a buffer of n bytes from offset `from` (the caller has
\* checked that from + n <= b.len)
Slice(b, from, n) ==
    [len |-> n,
     at  |-> [k \in {o - from : o \in {x \in DOMAIN b.at : x >= from /\ x < from + n}}
                |-> b.at[k + from]]]

\* &payload[q..q + n] as a sequence
SliceSeq(b, q, n) == [k \in 1..n |-> ByteAt(b, q + k - 1)]

EmptyBuf == [len |-> 0, at |-> <<>>]

-----------------------------------------------------------------------------
(* u64 as 64 bits, most significant first *)

Zero64 == [j \in 1..U64Bits |-> 0]

BitOf(x, k) == (x \div (2^k)) % 2

\* (acc << n) | u64::from(x), for x < 2^n
ShlOr(acc, n, x) ==
    [j \in 1..U64Bits |->
        IF j + n <= U64Bits THEN acc[j + n] ELSE BitOf(x, U64Bits - j)]

RECURSIVE LowValue(_, _, _)
LowValue(v, j, acc) ==
    IF j > U64Bits THEN acc ELSE LowValue(v, j + 1, 2 * acc + v[j])

\* `v as usize` (64-bit target), kept as Huge from 2^30 on
AsUsize(v) ==
    IF \E j \in 1..(U64Bits - 30) : v[j] = 1
    THEN Huge
    ELSE LowValue(v, U64Bits - 29, 0)

\* st % 2 == 1
IsOdd(v) == v[U64Bits] = 1

U16FromLeBytes(hi, lo) == lo * 256 + hi

\* u16::from_be_bytes([hi, lo])
U16FromBeBytes(hi, lo) == hi * 256 + lo

-----------------------------------------------------------------------------
(* The stream-style varint loops (payload_size, row_id): one read_exact of *)
(* one byte per step; read_exact fails at end of file.                     *)

RECURSIVE StreamLoop(_, _, _, _)
StreamLoop(f, p, acc, bytes_read) ==
    IF p >= f.len
    THEN [ok |-> FALSE, value |-> acc, pos |-> p]
    ELSE LET b    == ByteAt(f, p)
             acc2 == ShlOr(acc, 7, b % 128)
             n2   == bytes_read + 1
         IN  IF b < 128
             THEN [ok |-> TRUE, value |-> acc2, pos |-> p + 1]
             ELSE IF n2 = VarintShortBytes
                  THEN IF p + 1 >= f.len
                       THEN [ok |-> FALSE, value |-> acc2, pos |-> p + 1]
                       ELSE [ok |-> TRUE,
                             value |-> ShlOr(acc2, 8, ByteAt(f, p + 1)),
                             pos |-> p + 2]
                  ELSE StreamLoop(f, p + 1, acc2, n2)

RECURSIVE StreamLoopShift7(_, _, _, _)
StreamLoopShift7(f, p, acc, bytes_read) ==
    IF p >= f.len
    THEN [ok |-> FALSE, value |-> acc, pos |-> p]
    ELSE LET b    == ByteAt(f, p)
             acc2 == ShlOr(acc, 7, b % 128)
             n2   == bytes_read + 1
         IN  IF b < 128
             THEN [ok |-> TRUE, value |-> acc2, pos |-> p + 1]
             ELSE IF n2 = VarintShortBytes
                  THEN IF p + 1 >= f.len
                       THEN [ok |-> FALSE, value |-> acc2, pos |-> p + 1]
                       ELSE [ok |-> TRUE,
                             value |-> ShlOr(acc2, 7, ByteAt(f, p + 1) % 128),
                             pos |-> p + 2]
                  ELSE StreamLoopShift7(f, p + 1, acc2, n2)

\* the 9th byte taken as one more 7-bit group
ReadVarintStream_Shift7(f, p0) == StreamLoopShift7(f, p0, Zero64, 0)

ReadVarintStream(f, p0) == StreamLoop(f, p0, Zero64, 0)

(* The buffer-style header_size loop: payload[p] panics when p is not      *)
(* below payload.len().                                                    *)

RECURSIVE HeaderSizeLoop(_, _, _, _)
HeaderSizeLoop(pl, p, acc, bytes_read) ==
    IF p >= pl.len
    THEN [oob |-> TRUE, value |-> acc, p |-> p, bytes_read |-> bytes_read]
    ELSE LET b    == ByteAt(pl, p)
             acc2 == ShlOr(acc, 7, b % 128)
             n2   == bytes_read + 1
         IN  IF b < 128
             THEN [oob |-> FALSE, value |-> acc2, p |-> p + 1, bytes_read |-> n2]
             ELSE IF n2 = VarintShortBytes
                  THEN IF p + 1 >= pl.len
                       THEN [oob |-> TRUE, value |-> acc2, p |-> p + 1,
                             bytes_read |-> n2]
                       ELSE [oob |-> FALSE,
                             value |-> ShlOr(acc2, 8, ByteAt(pl, p + 1)),
                             p |-> p + 2, bytes_read |-> n2 + 1]
                  ELSE HeaderSizeLoop(pl, p + 1, acc2, n2)

ReadHeaderSize(pl) == HeaderSizeLoop(pl, 0, Zero64, 0)

-----------------------------------------------------------------------------
(* Record decoding: lines 98-229 *)

\* header_size - bytes_read on usize: a result below zero wraps to
\* 2^64 - (b - a), which is kept as Huge
WrappingSub(a, b) == IF a >= b THEN a - b ELSE Huge

\* header_bytes_remaining.saturating_sub(st_bytes)
SaturatingSub(a, b) ==
    IF a = Huge THEN Huge ELSE IF a >= b THEN a - b ELSE 0

(* The inner loop reading one serial type (lines 146-173).  `complete`     *)
(* tells which break ended it: the terminating byte or the 9th byte        *)
(* (TRUE), or one of the two bounds checks (FALSE).                        *)
RECURSIVE SerialTypeLoop(_, _, _, _, _)
SerialTypeLoop(pl, p, header_bytes_remaining, st, st_bytes) ==
    IF st_bytes >= header_bytes_remaining \/ p >= pl.len
    THEN [st |-> st, st_bytes |-> st_bytes, p |-> p, complete |-> FALSE]
    ELSE LET b   == ByteAt(pl, p)
             st2 == ShlOr(st, 7, b % 128)
             n2  == st_bytes + 1
         IN  IF b < 128
             THEN [st |-> st2, st_bytes |-> n2, p |-> p + 1, complete |-> TRUE]
             ELSE IF n2 = VarintShortBytes
                  THEN IF header_bytes_remaining > n2 /\ p + 1 < pl.len
                       THEN [st |-> ShlOr(st2, 8, ByteAt(pl, p + 1)),
                             st_bytes |-> n2 + 1, p |-> p + 2,
                             complete |-> TRUE]
                       ELSE [st |-> st2, st_bytes |-> n2, p |-> p + 1,
                             complete |-> FALSE]
                  ELSE SerialTypeLoop(pl, p + 1, header_bytes_remaining, st2, n2)

(* for _ in 0..5 (lines 135-183); k counts the iterations left *)
RECURSIVE SerialTypes(_, _, _, _, _)
SerialTypes(pl, p, header_bytes_remaining, k, serial_types) ==
    IF k = 0 \/ header_bytes_remaining = 0 \/ p >= pl.len
    THEN [serial_types |-> serial_types, p |-> p,
          header_bytes_remaining |-> header_bytes_remaining]
    ELSE LET r == SerialTypeLoop(pl, p, header_bytes_remaining, Zero64, 0)
         IN  IF r.st_bytes = 0
             THEN [serial_types |-> serial_types, p |-> r.p,
                   header_bytes_remaining |-> header_bytes_remaining]
             ELSE SerialTypes(pl, r.p,
                      SaturatingSub(header_bytes_remaining, r.st_bytes),
                      k - 1,
                      Append(serial_types,
                             [st |-> r.st, st_bytes |-> r.st_bytes,
                              complete |-> r.complete]))

\* serial type 5 taken as a 5-byte integer
ColLen_FiveBytesForType5(st) ==
    LET s == AsUsize(st)
    IN  CASE s = 0 -> 0
          [] s = 1 -> 1
          [] s = 2 -> 2
          [] s = 3 -> 3
          [] s = 4 -> 4
          [] s = 5 -> 5
          [] s = 6 -> 8
          [] s = 7 -> 8
          [] s = 8 \/ s = 9 -> 0
          [] s >= 12 /\ ~IsOdd(st) -> (s - 12) \div 2
          [] s >= 13 /\ IsOdd(st) -> (s - 13) \div 2
          [] OTHER -> 0

\* let col_len: usize = match st { ... } (lines 194-207)
ColLen(st) ==
    LET s == AsUsize(st)
    IN  CASE s = 0 -> 0
          [] s = 1 -> 1
          [] s = 2 -> 2
          [] s = 3 -> 3
          [] s = 4 -> 4
          [] s = 5 -> 6
          [] s = 6 -> 8
          [] s = 7 -> 8
          [] s = 8 \/ s = 9 -> 0
          [] s >= 12 /\ ~IsOdd(st) -> (s - 12) \div 2
          [] s >= 13 /\ IsOdd(st) -> (s - 13) \div 2
          [] OTHER -> 0

\* st >= 13 && st % 2 == 1
IsText(st) == AsUsize(st) >= 13 /\ IsOdd(st)

(* String::from_utf8_lossy, as a sequence of code points.  A byte below    *)
(* 0x80 is its own code point; a byte from 0x80 on that starts no valid    *)
(* sequence becomes U+FFFD.  The generated files hold no UTF-8 lead byte   *)
(* (0xC2..0xF4), so no multi-byte sequence is ever valid there.            *)
Utf8Lossy(bytes) ==
    [k \in 1..Len(bytes) |-> IF bytes[k] < 128 THEN bytes[k] ELSE 65533]

\* "table"
TableStr == <<116, 97, 98, 108, 101>>

(* for (i, &st) in serial_types.iter().enumerate() (lines 192-229).        *)
(* k = i + 1.  type_str is <<>> for None and <<s>> for Some(s).  `stop`    *)
(* is the k at which the bounds guard broke the loop, 0 when it did not.   *)
RECURSIVE DataLoop(_, _, _, _, _, _, _)
DataLoop(pl, sts, k, q, type_str, names, col_lens) ==
    IF k > Len(sts)
    THEN [q |-> q, type_str |-> type_str, names |-> names,
          col_lens |-> col_lens, stop |-> 0]
    ELSE LET st      == sts[k].st
             col_len == ColLen(st)
         IN  IF q + col_len > pl.len
             THEN [q |-> q, type_str |-> type_str, names |-> names,
                   col_lens |-> Append(col_lens, col_len), stop |-> k]
             ELSE LET col_bytes == SliceSeq(pl, q, col_len)
                      ts == IF k = 1 /\ IsText(st)
                            THEN <<Utf8Lossy(col_bytes)>>
                            ELSE type_str
                      nm == IF k = 3 /\ IsText(st) /\ ts = <<TableStr>>
                            THEN Append(names, Utf8Lossy(col_bytes))
                            ELSE names
                  IN  DataLoop(pl, sts, k + 1, q + col_len, ts, nm,
                               Append(col_lens, col_len))

NoRow ==
    [status |-> "none", payload_len |-> 0, header_size |-> 0, bytes_read |-> 0,
     passed |-> FALSE, underflow |-> FALSE, header_bytes_remaining |-> 0,
     header_start |-> 0, p |-> 0, serial_types |-> <<>>, q0 |-> 0,
     col_lens |-> <<>>, stop |-> 0, names |-> <<>>]

(* One cell's record decoding (lines 98-229) as a record of what it did.   *)
(* status: "oob" (payload[p] out of range, a panic), "skipped" (one of    *)
(* the two `continue` of lines 124-127 and 186-189), "underflow" (the      *)
(* subtraction panicked, debug build), "decoded" (the data loop ran).      *)
DecodeRow(pl, bld) ==
    LET h  == ReadHeaderSize(pl)
        hs == AsUsize(h.value)
        r0 == [NoRow EXCEPT !.payload_len = pl.len, !.header_size = hs,
                            !.bytes_read = h.bytes_read, !.p = h.p]
    IN  IF h.oob THEN [r0 EXCEPT !.status = "oob"]
        ELSE IF hs > pl.len THEN [r0 EXCEPT !.status = "skipped"]
        ELSE LET under == hs < h.bytes_read
                 hbr   == WrappingSub(hs, h.bytes_read)
                 r1    == [r0 EXCEPT !.passed = TRUE, !.underflow = under,
                                     !.header_start = h.p]
             IN  IF under /\ bld = "debug"
                 THEN [r1 EXCEPT !.status = "underflow"]
                 ELSE LET s == SerialTypes(pl, h.p, hbr, SchemaColumns, <<>>)
                          q == hs
                          d == DataLoop(pl, s.serial_types, 1, q, <<>>, <<>>, <<>>)
                      IN  IF q > pl.len
                          THEN [r1 EXCEPT !.status = "skipped"]
                          ELSE
                          [r1 EXCEPT !.status = "decoded",
                                     !.header_bytes_remaining = hbr,
                                     !.p = s.p,
                                     !.serial_types =
                                         [k \in 1..Len(s.serial_types) |->
                                            [st |-> AsUsize(s.serial_types[k].st),
                                             st_bytes |-> s.serial_types[k].st_bytes,
                                             complete |-> s.serial_types[k].complete]],
                                     !.q0 = q,
                                     !.col_lens = d.col_lens,
                                     !.stop = d.stop,
                                     !.names = d.names]

-----------------------------------------------------------------------------
(* Output formatting *)

Line(text, tail) == [text |-> text, tail |-> tail]

\* {} of a u16 in println!: its decimal digits, as code points
RECURSIVE Decimal(_)
Decimal(n) ==
    IF n < 10 THEN <<48 + n>> ELSE Append(Decimal(n \div 10), 48 + (n % 10))

-----------------------------------------------------------------------------
(* Inputs: files written in the layout main reads.                         *)

\* serial type of a TEXT value of n bytes
TextType(n) == 13 + 2 * n

Col(st, data) == [st |-> st, data |-> data]
TextCol(s) == Col(TextType(Len(s)), s)

RECURSIVE ColData(_)
ColData(cols) ==
    IF cols = <<>> THEN <<>> ELSE Head(cols).data \o ColData(Tail(cols))

\* a record with one-byte serial types: header size, serial types, data
Record(cols) ==
    <<Len(cols) + 1>> \o [k \in 1..Len(cols) |-> cols[k].st] \o ColData(cols)

\* a cell: payload size, row id, payload (both varints one byte long)
Cell(pl) == <<Len(pl), 1>> \o pl

\* the table name a row of these columns stands for, if any
Lists(cols) ==
    IF cols[1] = TextCol(TableStr) /\ cols[3].st >= 13 /\ cols[3].st % 2 = 1
    THEN <<cols[3].data>>
    ELSE <<>>

WellFormed(cols) ==
    [dangling |-> FALSE, image |-> Cell(Record(cols)), lists |-> Lists(cols)]

Malformed(image, lists) ==
    [dangling |-> FALSE, image |-> image, lists |-> lists]

IndexStr == <<105, 110, 100, 101, 120>>
NameU == <<117>>
NameI == <<105>>
Zeros(n) == [k \in 1..n |-> 0]

(* The cells a generated file is made of.  `lists` is the table name the   *)
(* cell stands for in the file format, <<>> when it stands for none.       *)
Catalogue ==
    << \* 1: type "table", tbl_name "u"
       WellFormed(<<TextCol(TableStr), TextCol(NameU), TextCol(NameU),
                    Col(1, <<2>>), TextCol(<<>>)>>),
       \* 2: type "index" on table "u"
       WellFormed(<<TextCol(IndexStr), TextCol(NameI), TextCol(NameU),
                    Col(1, <<3>>), TextCol(<<>>)>>),
       \* 3: type "table", name and tbl_name the empty string (serial type 13)
       WellFormed(<<TextCol(TableStr), TextCol(<<>>), TextCol(<<>>),
                    Col(1, <<2>>), TextCol(<<>>)>>),
       \* 4: serial types 0..4
       WellFormed(<<Col(0, <<>>), Col(1, Zeros(1)), Col(2, Zeros(2)),
                    Col(3, Zeros(3)), Col(4, Zeros(4))>>),
       \* 5: serial types 5..9
       WellFormed(<<Col(5, Zeros(6)), Col(6, Zeros(8)), Col(7, Zeros(8)),
                    Col(8, <<>>), Col(9, <<>>)>>),
       \* 6: serial types 12, 14 (BLOB), 10, 11 (reserved), 15 (TEXT)
       WellFormed(<<Col(12, <<>>), Col(14, <<7>>), Col(10, <<>>),
                    Col(11, <<>>), TextCol(NameU)>>),
       \* 7: payload_size 0: the empty payload
       Malformed(<<0, 1>>, <<>>),
       \* 8: the header-size varint has its continuation bit set on the last byte
       Malformed(Cell(<<129>>), <<>>),
       \* 9: header_size 0, smaller than its own varint
       Malformed(Cell(<<0, 13, 13, 13>>), <<>>),
       \* 10: header_size 9 in a payload of 2 bytes
       Malformed(Cell(<<9, 23>>), <<>>),
       \* 11: header_size 4 ends inside the third serial type (0x8D ...)
       Malformed(Cell(<<4, 23, 15, 141>> \o TableStr \o NameU), <<>>),
       \* 12: tbl_name declared as 60 bytes of TEXT (serial type 133), absent
       Malformed(Cell(<<7, 23, 15, 129, 5, 1, 13>> \o TableStr \o NameU), <<>>),
       \* 13: rootpage declared as 8 bytes, absent; tbl_name "u" is there
       Malformed(Cell(<<6, 23, 15, 15, 6, 13>> \o TableStr \o NameU \o NameU),
                 <<NameU>>),
       \* 14: the second serial type is a 9-byte varint
       Malformed(Cell(<<11, 23, 255, 255, 255, 255, 255, 255, 255, 255, 255>>
                      \o TableStr), <<>>),
       \* 15: payload_size 127 reaches past the end of the file
       Malformed(<<127, 1, 6, 23>>, <<>>),
       \* 16: the cell pointer itself is past the end of the file
       [dangling |-> TRUE, image |-> <<>>, lists |-> <<>>] >>

CellChoices == UNION {[1..n -> 1..Len(Catalogue)] : n \in 0..MaxCells}

\* the cell pointer of the j-th cell: the slots are filled from the end of
\* the file backwards, so pointer order is the reverse of offset order
PointerOf(cs, j) ==
    IF Catalogue[cs[j]].dangling
    THEN 65535
    ELSE CellBase + (Len(cs) - j) * SlotSize

FromPairs(pairs) ==
    [o \in {pr[1] : pr \in pairs} |-> (CHOOSE pr \in pairs : pr[1] = o)[2]]

\* the file header fields main reads: page size at 16..17, cell count at 103..104
HeaderPairs(b16, b17, b103, b104) ==
    {<<16, b16>>, <<17, b17>>, <<103, b103>>, <<104, b104>>}

MkFile(cs) ==
    LET n == Len(cs)
        ptrs == UNION {{<<HeaderLen + 2 * (j - 1), PointerOf(cs, j) \div 256>>,
                        <<HeaderLen + 2 * (j - 1) + 1, PointerOf(cs, j) % 256>>}
                       : j \in 1..n}
        imgs == UNION {{<<PointerOf(cs, j) + k - 1, Catalogue[cs[j]].image[k]>>
                        : k \in 1..Len(Catalogue[cs[j]].image)}
                       : j \in 1..n}
    IN  [exists |-> TRUE,
         len    |-> CellBase + n * SlotSize,
         at     |-> FromPairs(HeaderPairs(16, 0, n \div 256, n % 256)
                              \cup ptrs \cup imgs)]

\* a file of `len` bytes holding the header fields only
HeaderFile(len, b16, b17, b103, b104) ==
    [exists |-> TRUE, len |-> len,
     at |-> FromPairs({pr \in HeaderPairs(b16, b17, b103, b104) : pr[1] < len})]

(* A file whose cell count is n >= 32768.  Its cell pointer array reaches  *)
(* past offset 65535, so every cell pointer points into the header or the  *)
(* array itself: pointer 0 is 112, where the bytes 2, 1, 9, 0 are a cell   *)
(* of two payload bytes with header_size 9.                                *)
BigCountFile(n) ==
    [exists |-> TRUE, len |-> HeaderLen + 2 * n + 16,
     at |-> FromPairs(HeaderPairs(16, 0, n \div 256, n % 256)
                      \cup {<<109, 112>>, <<112, 2>>, <<113, 1>>, <<114, 9>>})]

NoFile == [exists |-> FALSE, len |-> 0, at |-> <<>>]

Input(f, cs) == [file |-> f, cells |-> cs]

Inputs ==
    {Input(MkFile(cs), cs) : cs \in CellChoices}
    \cup {Input(f, <<>>) : f \in
            {NoFile,
             HeaderFile(0, 0, 0, 0, 0),
             HeaderFile(107, 16, 0, 0, 3),
             HeaderFile(108, 16, 0, 0, 3),
             HeaderFile(108, 2, 1, 1, 2),
             HeaderFile(120, 255, 255, 0, 0),
             BigCountFile(32768),
             BigCountFile(32769)}}

ArgVectors ==
    {<<>>,
     <<"sqlite">>,
     <<"sqlite", "sample.db">>,
     <<"sqlite", "sample.db", ".dbinfo">>,
     <<"sqlite", "sample.db", ".tables">>,
     <<"sqlite", "sample.db", ".schema">>}

-----------------------------------------------------------------------------
(* State machine of main *)

NoErr == [kind |-> "none", at |-> "", why |-> ""]
Err(kind, at, why) == [kind |-> kind, at |-> at, why |-> why]

NoVarint == [value |-> <<>>, enc |-> <<>>]
NoVarintOut == [payload_size |-> <<>>, row_id |-> <<>>, header_size |-> <<>>]

Locals ==
    /\ pos = 0
    /\ io = <<>>
    /\ stdout = <<>>
    /\ err = NoErr
    /\ header = EmptyBuf
    /\ table_count = 0
    /\ cell_pointer_array = EmptyBuf
    /\ bound = 0
    /\ i = 0
    /\ visited = <<>>
    /\ payload = EmptyBuf
    /\ row = NoRow

Init ==
    /\ args \in ArgVectors
    /\ \E in \in Inputs : file = in.file /\ cells = in.cells
    /\ build \in {"debug", "release"}
    /\ pc = "start"
    /\ Locals
    /\ vin = NoVarint
    /\ vout = NoVarintOut

Fail(kind, at, why) ==
    /\ pc' = (IF kind = "panic" THEN "panic" ELSE "error")
    /\ err' = Err(kind, at, why)

\* let command = &args[2]
Command == args[3]

Dispatch_OpenFirst ==
    /\ pc = "start"
    /\ io' = Append(io, "open")
    /\ IF Len(args) <= 1
       THEN Fail("arg", "dispatch", "Missing <database path> and <command>")
       ELSE IF Len(args) = 2
       THEN Fail("arg", "dispatch", "Missing <command>")
       ELSE IF Command \in {".dbinfo", ".tables"}
       THEN pc' = "header" /\ err' = err
       ELSE Fail("arg", "dispatch", "Missing or invalid command passed")
    /\ UNCHANGED <<args, file, cells, build, pos, stdout, header,
                   table_count, cell_pointer_array, bound, i, visited,
                   payload, row, vin, vout>>

(* lines 7-16 and 232: the argument count check and the command match *)
Dispatch ==
    /\ pc = "start"
    /\ IF Len(args) <= 1
       THEN Fail("arg", "dispatch", "Missing <database path> and <command>")
       ELSE IF Len(args) = 2
       THEN Fail("arg", "dispatch", "Missing <command>")
       ELSE IF Command \in {".dbinfo", ".tables"}
       THEN pc' = "open" /\ err' = err
       ELSE Fail("arg", "dispatch", "Missing or invalid command passed")
    /\ UNCHANGED <<args, file, cells, build, pos, io, stdout, header,
                   table_count, cell_pointer_array, bound, i, visited,
                   payload, row, vin, vout>>

(* lines 18 and 35: File::open(&args[1])? *)
OpenFile ==
    /\ pc = "open"
    /\ io' = Append(io, "open")
    /\ IF file.exists
       THEN pc' = "header" /\ err' = err
       ELSE Fail("io", "open", "No such file or directory")
    /\ UNCHANGED <<args, file, cells, build, pos, stdout, header,
                   table_count, cell_pointer_array, bound, i, visited,
                   payload, row, vin, vout>>

(* lines 19-20 and 36-37: file.read_exact(&mut header)? *)
ReadHeader ==
    /\ pc = "header"
    /\ io' = Append(io, "read_exact")
    /\ IF HeaderLen > file.len
       THEN /\ Fail("io", "header", "failed to fill whole buffer")
            /\ UNCHANGED <<header, pos>>
       ELSE /\ header' = Slice(file, 0, HeaderLen)
            /\ pos' = HeaderLen
            /\ pc' = (IF Command = ".dbinfo" THEN "dbinfo" ELSE "cell_pointers")
            /\ err' = err
    /\ UNCHANGED <<args, file, cells, build, stdout, table_count,
                   cell_pointer_array, bound, i, visited, payload, row,
                   vin, vout>>

(* lines 24-32: the two println! of .dbinfo *)
DbInfo ==
    /\ pc = "dbinfo"
    /\ LET page_size == U16FromBeBytes(ByteAt(header, 16), ByteAt(header, 17))
           count     == U16FromBeBytes(ByteAt(header, 103), ByteAt(header, 104))
       IN  /\ table_count' = count
           /\ stdout' = stdout \o
                  <<Line("database page size: ", Decimal(page_size)),
                    Line("number of tables: ", Decimal(count))>>
    /\ pc' = "done"
    /\ UNCHANGED <<args, file, cells, build, pos, io, err, header,
                   cell_pointer_array, bound, i, visited, payload, row,
                   vin, vout>>

(* lines 38-45: table_count, and read_exact of table_count * 2 bytes *)
ReadCellPointers ==
    /\ pc = "cell_pointers"
    /\ LET count == U16FromBeBytes(ByteAt(header, 103), ByteAt(header, 104))
           n     == count * 2
       IN  /\ table_count' = count
           /\ io' = Append(io, "read_exact")
           /\ IF pos + n > file.len
              THEN /\ Fail("io", "cell_pointers", "failed to fill whole buffer")
                   /\ UNCHANGED <<cell_pointer_array, pos>>
              ELSE /\ cell_pointer_array' = Slice(file, pos, n)
                   /\ pos' = pos + n
                   /\ pc' = "loop_bound"
                   /\ err' = err
    /\ UNCHANGED <<args, file, cells, build, stdout, header, bound, i,
                   visited, payload, row, vin, vout>>

(* line 47: the range 0..table_count * 2, a u16 multiplication: it panics  *)
(* on overflow in a debug build and wraps in a release build               *)
LoopBound ==
    /\ pc = "loop_bound"
    /\ IF table_count * 2 >= U16Mod /\ build = "debug"
       THEN /\ Fail("panic", "loop_bound", "attempt to multiply with overflow")
            /\ UNCHANGED <<bound, i>>
       ELSE /\ bound' = (table_count * 2) % U16Mod
            /\ i' = 0
            /\ pc' = "loop"
            /\ err' = err
    /\ UNCHANGED <<args, file, cells, build, pos, io, stdout, header,
                   table_count, cell_pointer_array, visited, payload, row,
                   vin, vout>>

(* lines 47-95: the next cell pointer, the seek, the payload_size and the  *)
(* row_id varints, and read_exact of the payload.  A payload_size from     *)
(* 2^30 on never fits the files of the model: the allocation or the        *)
(* read_exact ends main.                                                   *)
ReadCell ==
    /\ pc = "loop"
    /\ i < bound
    /\ LET cell_pointer == U16FromBeBytes(ByteAt(cell_pointer_array, i),
                                          ByteAt(cell_pointer_array, i + 1))
           ps  == ReadVarintStream(file, cell_pointer)
           rid == ReadVarintStream(file, ps.pos)
           n   == AsUsize(ps.value)
       IN  /\ visited' = Append(visited, cell_pointer)
           /\ io' = io \o <<"seek", "read_exact">>
           /\ IF ~ps.ok
              THEN /\ Fail("io", "read_cell", "payload_size: failed to fill whole buffer")
                   /\ pos' = ps.pos
                   /\ UNCHANGED payload
              ELSE IF ~rid.ok
              THEN /\ Fail("io", "read_cell", "row_id: failed to fill whole buffer")
                   /\ pos' = rid.pos
                   /\ UNCHANGED payload
              ELSE IF rid.pos + n > file.len
              THEN /\ Fail("io", "read_cell", "payload: failed to fill whole buffer")
                   /\ pos' = rid.pos
                   /\ UNCHANGED payload
              ELSE /\ payload' = Slice(file, rid.pos, n)
                   /\ pos' = rid.pos + n
                   /\ pc' = "decode"
                   /\ err' = err
    /\ UNCHANGED <<args, file, cells, build, stdout, header, table_count,
                   cell_pointer_array, bound, i, row, vin, vout>>

(* lines 98-229: the record decoding of the cell read, its println!, and   *)
(* the step of the loop                                                    *)
DecodeRecord ==
    /\ pc = "decode"
    /\ LET r == DecodeRow(payload, build)
       IN  /\ row' = r
           /\ IF r.status = "oob"
              THEN /\ Fail("panic", "decode_record", "index out of bounds")
                   /\ UNCHANGED <<stdout, i>>
              ELSE IF r.status = "underflow"
              THEN /\ Fail("panic", "decode_record", "attempt to subtract with overflow")
                   /\ UNCHANGED <<stdout, i>>
              ELSE /\ stdout' = stdout \o [k \in 1..Len(r.names) |-> Line("", r.names[k])]
                   /\ i' = i + 2
                   /\ pc' = "loop"
                   /\ err' = err
    /\ UNCHANGED <<args, file, cells, build, pos, io, header, table_count,
                   cell_pointer_array, bound, visited, payload, vin, vout>>

(* line 235: the loop is over, Ok(()) *)
LoopExit ==
    /\ pc = "loop"
    /\ i >= bound
    /\ pc' = "done"
    /\ UNCHANGED <<args, file, cells, build, pos, io, stdout, err, header,
                   table_count, cell_pointer_array, bound, i, visited,
                   payload, row, vin, vout>>

Next ==
    \/ Dispatch
    \/ OpenFile
    \/ ReadHeader
    \/ DbInfo
    \/ ReadCellPointers
    \/ LoopBound
    \/ ReadCell
    \/ DecodeRecord
    \/ LoopExit

Spec == Init /\ [][Next]_vars

-----------------------------------------------------------------------------
(* The varint decoders on their own: a value is encoded as the file format *)
(* encodes it and handed to each of the three loops of main.               *)

RECURSIVE FieldValue(_, _, _, _)
\* the number held in bits j..last of v
FieldValue(v, j, last, acc) ==
    IF j > last THEN acc ELSE FieldValue(v, j + 1, last, 2 * acc + v[j])

(* The format's encoding: a value below 2^56 is written as its 7-bit       *)
(* groups from the first non-zero one, each but the last with the          *)
(* continuation bit; a value from 2^56 on is written as 8 groups of 7 bits *)
(* (bits 63..8), all with the continuation bit, and a 9th byte of 8 bits.  *)
EncodeVarint(v) ==
    IF \E j \in 1..8 : v[j] = 1
    THEN [k \in 1..9 |->
            IF k <= 8
            THEN 128 + FieldValue(v, 7 * (k - 1) + 1, 7 * k, 0)
            ELSE FieldValue(v, 57, 64, 0)]
    ELSE LET g(k)  == FieldValue(v, 7 * k + 2, 7 * k + 8, 0)
             nz    == {k \in 1..8 : g(k) # 0}
             first == IF nz = {} THEN 8 ELSE CHOOSE k \in nz : \A m \in nz : k <= m
         IN  [m \in 1..(9 - first) |->
                g(first + m - 1) + (IF first + m - 1 < 8 THEN 128 ELSE 0)]

\* 2^k - 1
Ones(k) == [j \in 1..U64Bits |-> IF j > U64Bits - k THEN 1 ELSE 0]
\* 2^k
OneBit(k) == [j \in 1..U64Bits |-> IF j = U64Bits - k THEN 1 ELSE 0]
\* the low k bits of 0x5555555555555555
Alternating(k) ==
    [j \in 1..U64Bits |-> IF j > U64Bits - k /\ (U64Bits - j) % 2 = 0 THEN 1 ELSE 0]

VarintValues ==
    {Ones(k) : k \in 0..U64Bits}
    \cup {OneBit(k) : k \in 0..(U64Bits - 1)}
    \cup {Alternating(k) : k \in 0..U64Bits}

\* bytes that follow the varint in the file or payload
Trailing == <<255, 255>>

BufOf(bytes) ==
    [exists |-> TRUE, len |-> Len(bytes),
     at |-> [k \in 0..(Len(bytes) - 1) |-> bytes[k + 1]]]

VarintInit ==
    /\ args = <<>>
    /\ file = NoFile
    /\ cells = <<>>
    /\ build = "release"
    /\ pc = "varint"
    /\ Locals
    /\ \E v \in VarintValues : vin = [value |-> v, enc |-> EncodeVarint(v)]
    /\ vout = NoVarintOut

Decoded(ok, value, consumed) ==
    [ok |-> ok, value |-> value, consumed |-> consumed]

(* lines 56-74: the varint is the payload_size of a cell at offset 0 *)
VarintPayloadSize ==
    /\ pc = "varint"
    /\ vout.payload_size = <<>>
    /\ LET r == ReadVarintStream(BufOf(vin.enc \o Trailing), 0)
       IN  vout' = [vout EXCEPT !.payload_size = <<Decoded(r.ok, r.value, r.pos)>>]
    /\ UNCHANGED <<args, file, cells, build, pc, pos, io, stdout, err, header,
                   table_count, cell_pointer_array, bound, i, visited,
                   payload, row, vin>>

(* lines 76-92: the varint is the row_id, after a payload_size of one byte *)
VarintRowId ==
    /\ pc = "varint"
    /\ vout.row_id = <<>>
    /\ LET f  == BufOf(<<5>> \o vin.enc \o Trailing)
           ps == ReadVarintStream(f, 0)
           r  == ReadVarintStream(f, ps.pos)
       IN  vout' = [vout EXCEPT !.row_id = <<Decoded(r.ok, r.value, r.pos - ps.pos)>>]
    /\ UNCHANGED <<args, file, cells, build, pc, pos, io, stdout, err, header,
                   table_count, cell_pointer_array, bound, i, visited,
                   payload, row, vin>>

(* lines 98-122: the varint is the header_size at the start of a payload *)
VarintHeaderSize ==
    /\ pc = "varint"
    /\ vout.header_size = <<>>
    /\ LET h == ReadHeaderSize(BufOf(vin.enc \o Trailing))
       IN  vout' = [vout EXCEPT !.header_size =
                       <<Decoded(~h.oob /\ h.bytes_read = h.p, h.value, h.p)>>]
    /\ UNCHANGED <<args, file, cells, build, pc, pos, io, stdout, err, header,
                   table_count, cell_pointer_array, bound, i, visited,
                   payload, row, vin>>

VarintNext ==
    \/ VarintPayloadSize
    \/ VarintRowId
    \/ VarintHeaderSize

SpecVarint == VarintInit /\ [][VarintNext]_vars

-----------------------------------------------------------------------------
(* Properties *)

IsRun(command) == Len(args) >= 3 /\ Command = command
Ended == pc \in {"done", "error", "panic"}

(* C1: during .tables a cell that fails to decode is skipped: no error and *)
(* no panic is raised while a cell is read or decoded, and the scan goes   *)
(* on to the end of the cell pointer array.                                *)
C1_MalformedCellIsSkipped ==
    IsRun(".tables") => err.at \notin {"read_cell", "decode_record"}

(* C2: record decoding never indexes the payload at a position that is not *)
(* below payload.len().                                                    *)
C2_NoIndexPastPayload ==
    row.status # "oob"

RECURSIVE ListedNames(_)
ListedNames(cs) ==
    IF cs = <<>>
    THEN <<>>
    ELSE [k \in 1..Len(Catalogue[Head(cs)].lists) |->
              Line("", Utf8Lossy(Catalogue[Head(cs)].lists[k]))]
         \o ListedNames(Tail(cs))

(* C3: when .tables has read the cell pointer array and ended, the lines   *)
(* it printed are the tbl_name of the cells of type "table", in cell       *)
(* pointer order, nothing left out and nothing added.                      *)
C3_PrintsTableNamesInPointerOrder ==
    (IsRun(".tables") /\ Ended /\ err.at \notin {"open", "header", "cell_pointers"})
        => stdout = ListedNames(cells)

RECURSIVE DecimalValue(_)
DecimalValue(digits) ==
    IF digits = <<>>
    THEN 0
    ELSE 10 * DecimalValue(SubSeq(digits, 1, Len(digits) - 1))
         + (digits[Len(digits)] - 48)

(* C4: .dbinfo on a file of at least 108 bytes ends normally having        *)
(* printed the big-endian u16 at offsets 16-17 as the page size and the    *)
(* one at offsets 103-104 as the number of tables; on a shorter file it    *)
(* ends with an I/O error having printed nothing.                          *)
C4_DbInfoReportsHeaderFields ==
    (IsRun(".dbinfo") /\ file.exists)
        => /\ pc \notin {"panic"}
           /\ stdout # <<>> => pc = "done"
           /\ pc = "error" => err.kind = "io" /\ file.len < 108 /\ stdout = <<>>
           /\ pc = "done" =>
                /\ file.len >= 108
                /\ Len(stdout) = 2
                /\ stdout[1].text = "database page size: "
                /\ DecimalValue(stdout[1].tail)
                       = 256 * ByteAt(file, 16) + ByteAt(file, 17)
                /\ stdout[2].text = "number of tables: "
                /\ DecimalValue(stdout[2].tail)
                       = 256 * ByteAt(file, 103) + ByteAt(file, 104)

\* bytes 0x10 0x00 and 0x00 0x03 are reported as 4096 and 3
C4_Witness ==
    /\ IsRun(".dbinfo")
    /\ pc = "done"
    /\ ByteAt(file, 16) = 16 /\ ByteAt(file, 17) = 0
    /\ ByteAt(file, 103) = 0 /\ ByteAt(file, 104) = 3
    /\ stdout = <<Line("database page size: ", <<52, 48, 57, 54>>),
                  Line("number of tables: ", <<51>>)>>

(* C5: with fewer than two arguments after the program name, or with a     *)
(* command that is neither .dbinfo nor .tables, main ends with an argument *)
(* error and no file operation is ever performed.                          *)
C5_ArgumentErrorsBeforeFileIO ==
    (Len(args) < 3 \/ Command \notin {".dbinfo", ".tables"})
        => /\ io = <<>>
           /\ pc \in {"start", "error"}
           /\ pc = "error" => err.kind = "arg"

\* only the database path given: "Missing <command>", no file operation
C5_Witness ==
    /\ Len(args) = 2
    /\ pc = "error"
    /\ err.why = "Missing <command>"
    /\ io = <<>>

(* C6: each of the three varint loops returns the value that was encoded   *)
(* and consumes exactly the bytes of its encoding, at most 9.              *)
C6_VarintRoundTrip ==
    pc = "varint" =>
        \A d \in {"payload_size", "row_id", "header_size"} :
            vout[d] # <<>> =>
                /\ vout[d][1].ok
                /\ vout[d][1].value = vin.value
                /\ vout[d][1].consumed = Len(vin.enc)
                /\ vout[d][1].consumed <= 9

\* 2^64 - 1, a 9-byte varint, decoded by all three loops
C6_Witness ==
    /\ pc = "varint"
    /\ vin.value = Ones(U64Bits)
    /\ Len(vin.enc) = 9
    /\ \A d \in {"payload_size", "row_id", "header_size"} : vout[d] # <<>>

(* C7: a .tables run that reaches its end has visited exactly cell_count   *)
(* cell pointers, the k-th being the big-endian u16 at file offset         *)
(* 108 + 2k, and the loop bound never overflows.                           *)
C7_VisitsEveryCellPointer ==
    /\ err.at # "loop_bound"
    /\ (IsRun(".tables") /\ pc = "done") =>
          /\ Len(visited) = table_count
          /\ \A k \in 1..Len(visited) :
                visited[k] = 256 * ByteAt(file, 108 + 2 * (k - 1))
                             + ByteAt(file, 108 + 2 * (k - 1) + 1)

(* C8: for a row that passes the header_size <= payload.len() check,       *)
(* header_bytes_remaining is computed without underflow, lies within       *)
(* 0..header_size, and no serial type byte is read at an offset that is    *)
(* not below header_size.                                                  *)
C8_HeaderBytesRemainingInRange ==
    row.passed =>
        /\ ~row.underflow
        /\ row.status = "decoded" =>
              /\ row.header_bytes_remaining \in 0..row.header_size
              /\ \A o \in row.header_start..(row.p - 1) : o < row.header_size

(* C9: at most 5 serial types are recorded for a row, and each is a        *)
(* complete varint: none was cut off by the end of the header region or of *)
(* the payload.                                                            *)
C9_OnlyCompleteSerialTypes ==
    /\ Len(row.serial_types) <= 5
    /\ \A k \in 1..Len(row.serial_types) : row.serial_types[k].complete

\* the column length the serial type mapping gives (10 and 11 are left open)
MappedLen(s, len) ==
    CASE s \in {0, 8, 9} -> len = 0
      [] s \in 1..4 -> len = s
      [] s = 5 -> len = 6
      [] s \in {6, 7} -> len = 8
      [] s \in {10, 11} -> TRUE
      [] s >= 12 /\ s < Huge /\ s % 2 = 0 -> 2 * len = s - 12
      [] s >= 13 /\ s < Huge /\ s % 2 = 1 -> 2 * len = s - 13
      [] OTHER -> len >= Huge \div 2 - 7

RECURSIVE SumTo(_, _)
SumTo(lens, k) == IF k = 0 THEN 0 ELSE SumTo(lens, k - 1) + lens[k]

====
